---- MODULE Spec2Model ----
(***************************************************************************)
(* Model of the property collapsing ETL:                                   *)
(*   src/collapsing/dags/property_collapsing_dag.py  (the Airflow DAG)     *)
(*   src/collapsing/03_collapsing_logic.py           (process_batch)       *)
(*                                                                         *)
(* The row store (table property_collapsing) is the sequence of rows in    *)
(* append order, the state store (table airflow_processing_state) is the   *)
(* record FINAL returns per execution_date, the staging log (table         *)
(* kafka_raw_json) is the sequence of payloads per window.  One DAG run    *)
(* is active at a time (max_active_runs=1, depends_on_past=True); pc is    *)
(* the next task of the run.                                               *)
(***************************************************************************)
EXTENDS Integers, Sequences, FiniteSets, TLC

\* ------------------------------------------------------------------ bounds
\* Total number of events the staging log receives.
MaxEvents == 3
\* Number of task failures (lookup, write, state write) over a behaviour.
MaxFailures == 1
\* Number of events of a window of two runs that are let to overlap.
MaxConcLen == 1

\* ------------------------------------------------------- program constants
\* BATCH_SIZE = 10000 in the source; scaled so that a window of three rows
\* is written in two chunks.
BATCH_SIZE == 2
\* Python's None, the value of created_time / last_modified_time of a row
\* whose event carries the timestamp 0 or no timestamp.
None == -1
\* A timestamp key that the payload lacks: audit.get("createdTime", 0) and
\* audit.get("lastModifiedTime", 0) read it as 0.
Missing == -2

\* -------------------------------------------------------------- universes
Windows == {1, 2}
Tenants == {"t1"}
Props == {"p1", "p2"}
Versions == {1, 2, 3}
StatusVals == {"A", "B"}
\* (createdTime, lastModifiedTime) in milliseconds: equal = INSERT.
TimePairs == {<<1, 1>>, <<1, 2>>}

AllKeys == {<<t, p>> : t \in Tenants, p \in Props}

\* A parsed payload of kafka_raw_json: the fields process_events reads.
\* status stands for the attribute fields copied verbatim (id, surveyId,
\* propertyType, usageCategory, status, ...).
AllEvents ==
    {[tenantId |-> t, propertyId |-> p, version |-> v,
      createdTime |-> tp[1], lastModifiedTime |-> tp[2], status |-> s] :
        t \in Tenants, p \in Props, v \in Versions, tp \in TimePairs,
        s \in StatusVals}

\* The events the staging log receives.  Of property p1: the INSERT events
\* (createdTime = lastModifiedTime) of versions 1 and 2 with status A, and
\* every UPDATE event.  Of property p2: the two events of version 1 and
\* status A.
EventSpace ==
    {e \in AllEvents :
        /\ e.propertyId = "p2" => e.version = 1 /\ e.status = "A"
        /\ e.createdTime = e.lastModifiedTime =>
               e.version <= 2 /\ e.status = "A"}

\* The events of the behaviours in which tasks fail: one property, one
\* status, versions 1 and 2.
FailureEvents ==
    {e \in EventSpace :
        e.propertyId = "p1" /\ e.status = "A" /\ e.version <= 2}

\* A payload of kafka_raw_json that json.loads rejects.
BadPayload == [malformed |-> TRUE]

\* Timestamp pairs with missing and zero values.
EdgeTimePairs ==
    {<<Missing, Missing>>, <<0, 0>>, <<Missing, 0>>, <<0, 1>>, <<1, Missing>>}

\* The payloads of the behaviours with malformed payloads and with missing
\* or zero timestamps: one property, one version, one status.
EdgePayloads ==
    {BadPayload} \cup
    {[tenantId |-> "t1", propertyId |-> "p1", version |-> 1,
      createdTime |-> tp[1], lastModifiedTime |-> tp[2], status |-> "A"] :
        tp \in EdgeTimePairs}

\* The absent entry of current_state (key not in current_state).
NoRow == [absent |-> TRUE]

VARIABLES
    staging,         \* kafka_raw_json: window -> sequence of events
    store,           \* property_collapsing: sequence of rows, append order
    state_store,     \* airflow_processing_state: window -> latest record
    pc,              \* next task of the active run, "idle" when none
    win,             \* execution_date of the active (or last) run
    idem,            \* XCom: result of check_idempotency
    raw_events,      \* XCom: result of fetch_raw_events
    processed,       \* XCom: result of process_events
    offset,          \* batch_insert: loop variable i
    total_inserted,  \* batch_insert: total_inserted
    inserted_count,  \* XCom: result of batch_insert
    upd_done,        \* update_state of the run has ended
    mart_done,       \* trigger_mart_refresh of the run has ended
    mart_failed,     \* trigger_mart_refresh of the run has raised
    conc,            \* overlapping runs: window -> phase, rows, store read
    lookups,         \* history: state lookups issued by the active run
    state_writes,    \* history: state records written by the active run
    mart_queries,    \* history: mart refresh queries run by the active run
    store_seen,      \* history: the row store when process_events read it
    store_base,      \* history: the row store when the window first began
    failures,        \* history: task failures so far
    batched          \* windows whose events were handed to process_batch

vars == <<staging, store, state_store, pc, win, idem, raw_events, processed,
          offset, total_inserted, inserted_count, upd_done, mart_done,
          mart_failed, conc, lookups, state_writes, mart_queries, store_seen, store_base,
          failures, batched>>

\* ------------------------------------------------------------- helpers
Min(a, b) == IF a < b THEN a ELSE b

RECURSIVE SumSeq(_)
SumSeq(s) == IF s = <<>> THEN 0 ELSE Head(s) + SumSeq(Tail(s))

KeyOfEvent(e) == <<e.tenantId, e.propertyId>>
KeyOfRow(r) == <<r.tenant_id, r.property_id>>

\* The rows of a key, in order.
RowsOfKey(rows, k) == SelectSeq(rows, LAMBDA r : KeyOfRow(r) = k)

\* sum(sign) of a key over a sequence of rows.
SumSign(rows, k) ==
    LET rk == RowsOfKey(rows, k)
    IN  SumSeq([j \in DOMAIN rk |-> rk[j].sign])

\* A snapshot is a row without its sign.
Snapshot(r) == [r EXCEPT !.sign = 0]

\* Net sign of a snapshot over a sequence of rows.
NetSign(rows, snap) ==
    LET rs == SelectSeq(rows, LAMBDA r : Snapshot(r) = snap)
    IN  SumSeq([j \in DOMAIN rs |-> rs[j].sign])

SnapshotsOfKey(rows, k) ==
    {Snapshot(rows[j]) : j \in {n \in DOMAIN rows : KeyOfRow(rows[n]) = k}}

\* What the collapsing merge leaves of a key: its snapshots that do not
\* cancel, each with its net sign.
Collapsed(rows, k) ==
    {<<snap, NetSign(rows, snap)>> :
        snap \in {q \in SnapshotsOfKey(rows, k) : NetSign(rows, q) # 0}}

\* ---------------------------------------------------- process_events: pure
\* audit.get("createdTime", 0), audit.get("lastModifiedTime", 0) (lines
\* 191-192 and 261-262).
Get(t) == IF t = Missing THEN 0 ELSE t

\* Mutant of IsUpdate: the timestamps are compared without the default.
IsUpdate_NoDefault(e) == e.createdTime # e.lastModifiedTime

\* created != modified (lines 193 and 289).
IsUpdate(e) == Get(e.createdTime) # Get(e.lastModifiedTime)

\* datetime.fromtimestamp(t / 1000) if t else None (lines 284, 286).
ToDatetime(t) == IF t = 0 THEN None ELSE t

\* new_row (lines 264-287), before its sign is set.
NewRow(e) ==
    [tenant_id |-> e.tenantId, property_id |-> e.propertyId,
     version |-> e.version, sign |-> 0, status |-> e.status,
     created_time |-> ToDatetime(Get(e.createdTime)),
     last_modified_time |-> ToDatetime(Get(e.lastModifiedTime))]

WithSign(r, s) == [r EXCEPT !.sign = s]

\* Mutant of PotentialUpdateKeys: the key of every event is collected.
PotentialUpdateKeys_AllEvents(events) ==
    {KeyOfEvent(events[j]) : j \in DOMAIN events}

\* potential_update_keys (lines 187-195).
PotentialUpdateKeys(events) ==
    {KeyOfEvent(events[j]) : j \in {n \in DOMAIN events : IsUpdate(events[n])}}

\* Mutant of SignOneRows: the query has no condition on the sign.
SignOneRows_AnySign(rows, k) ==
    {rows[j] : j \in {n \in DOMAIN rows : KeyOfRow(rows[n]) = k}}

\* The rows the lookup query returns for a key: WHERE key AND sign = 1.
SignOneRows(rows, k) ==
    {rows[j] : j \in {n \in DOMAIN rows :
                        KeyOfRow(rows[n]) = k /\ rows[n].sign = 1}}

\* Mutant of LatestRows: the lookup keeps a row of the lowest version.
LatestRows_Lowest(rows, k) ==
    {r \in SignOneRows(rows, k) :
        \A q \in SignOneRows(rows, k) : r.version <= q.version}

\* ORDER BY tenant_id, property_id, version DESC and "if key not in
\* current_state" keep the first row of a key: a row of its highest
\* version.  The order among rows of one key and version is not fixed by
\* the query, so any of them may come first.
LatestRows(rows, k) ==
    {r \in SignOneRows(rows, k) :
        \A q \in SignOneRows(rows, k) : q.version <= r.version}

\* The current_state maps the lookup can build (lines 198-247).
CurrentStateChoices(rows, keys) ==
    LET pick(k) == IF k \in keys /\ SignOneRows(rows, k) # {}
                   THEN LatestRows(rows, k) ELSE {NoRow}
    IN  {cs \in [AllKeys -> UNION {pick(k) : k \in AllKeys}] :
            \A k \in AllKeys : cs[k] \in pick(k)}

\* Mutant of TakesUpdateBranch: the class of the event is not looked at.
TakesUpdateBranch_AnyClass(e, cs) == cs[KeyOfEvent(e)] # NoRow

\* "if is_update and key in current_state" (line 292).
TakesUpdateBranch(e, cs) == IsUpdate(e) /\ cs[KeyOfEvent(e)] # NoRow

\* Mutant of UpdateRows: the new state is written and the old one is not
\* cancelled.
UpdateRows_NoCancel(old, new) == <<WithSign(new, 1)>>

\* Rows of the update branch (lines 294-299).
UpdateRows(old, new_row) == <<WithSign(old, -1), WithSign(new_row, 1)>>

\* Mutant of InsertRows: the new row is preceded by its own cancellation.
InsertRows_WithCancel(new_row) == <<WithSign(new_row, -1), WithSign(new_row, 1)>>

\* Rows of the insert branch (lines 306-307).
InsertRows(new_row) == <<WithSign(new_row, 1)>>

\* Mutant of TrackUpdate: the row of the update branch is not remembered.
TrackUpdate_Dropped(cs, key, row) == cs

\* current_state[key] = new_row after an update (line 303).
TrackUpdate(cs, key, row) == [cs EXCEPT ![key] = row]

\* Mutant of TrackInsert: the row of the insert branch is not remembered.
TrackInsert_Dropped(cs, key, row) == cs

\* current_state[key] = new_row after an insert (line 311).
TrackInsert(cs, key, row) == [cs EXCEPT ![key] = row]

\* The result of process_events (line 182), with observations the task
\* does not return: per_event, the rows appended for each event in turn;
\* classes, is_update of each event in turn (line 289); queried, the keys
\* of the lookup query (potential_update_keys); resolved, current_state as
\* the lookup built it.
EmptyProcessed ==
    [properties |-> <<>>, stats |-> [inserts |-> 0, updates |-> 0],
     per_event |-> <<>>, classes |-> <<>>, queried |-> {},
     resolved |-> [k \in AllKeys |-> NoRow]]

\* stats["updates"] += 1 (line 300).
CountUpdate(stats) == [stats EXCEPT !.updates = @ + 1]

\* Mutant of CountInsert: the insert branch counts an update.
CountInsert_AsUpdate(stats) == [stats EXCEPT !.updates = @ + 1]

\* stats["inserts"] += 1 (line 308).
CountInsert(stats) == [stats EXCEPT !.inserts = @ + 1]

\* The loop of lines 253-311.
RECURSIVE ProcessLoop(_, _, _)
ProcessLoop(events, cs, acc) ==
    IF events = <<>> THEN acc
    ELSE LET e == Head(events)
             key == KeyOfEvent(e)
             new_row == NewRow(e)
         IN  IF TakesUpdateBranch(e, cs)
             THEN LET out == UpdateRows(cs[key], new_row)
                  IN  ProcessLoop(Tail(events),
                         TrackUpdate(cs, key, WithSign(new_row, 1)),
                         [acc EXCEPT
                            !.properties = @ \o out,
                            !.stats = CountUpdate(@),
                            !.per_event = Append(@, out),
                            !.classes = Append(@, IsUpdate(e))])
             ELSE LET out == InsertRows(new_row)
                  IN  ProcessLoop(Tail(events),
                         TrackInsert(cs, key, WithSign(new_row, 1)),
                         [acc EXCEPT
                            !.properties = @ \o out,
                            !.stats = CountInsert(@),
                            !.per_event = Append(@, out),
                            !.classes = Append(@, IsUpdate(e))])

\* Mutant of ProcessEvents: the task returns after its first event.
ProcessEvents_FirstOnly(events, cs) ==
    ProcessLoop(SubSeq(events, 1, 1), cs, EmptyProcessed)

\* Lines 249-313: every event of the batch is encoded before the task
\* returns.
ProcessEvents(events, cs) == ProcessLoop(events, cs, EmptyProcessed)

\* ----------------------------------------------------- process_batch: pure
\* is_insert (03_collapsing_logic.py lines 42-48).
is_insert(e) == e.createdTime = e.lastModifiedTime

\* CollapsingRow(...) built from an event (lines 114-124 and 144-154).
RowOfEvent(e, s) ==
    [tenant_id |-> e.tenantId, property_id |-> e.propertyId,
     version |-> e.version, sign |-> s, status |-> e.status,
     created_time |-> e.createdTime,
     last_modified_time |-> e.lastModifiedTime]

\* Mutant of generate_collapsing_rows: the cancellation is appended after
\* the new row.
generate_collapsing_rows_CancelLast(e, current) ==
    IF e.createdTime = e.lastModifiedTime THEN <<RowOfEvent(e, 1)>>
    ELSE <<RowOfEvent(e, 1)>>
         \o (IF current # NoRow THEN <<WithSign(current, -1)>> ELSE <<>>)

\* generate_collapsing_rows (lines 94-156); NoRow is None.
generate_collapsing_rows(e, current) ==
    IF is_insert(e) THEN <<RowOfEvent(e, 1)>>
    ELSE (IF current # NoRow THEN <<WithSign(current, -1)>> ELSE <<>>)
         \o <<RowOfEvent(e, 1)>>

\* Mutant of FirstPlus: the first generated row, whatever its sign.
FirstPlus_Head(rows) == rows[1]

\* [r for r in rows if r.sign == +1][0] (line 228).
FirstPlus(rows) == SelectSeq(rows, LAMBDA r : r.sign = 1)[1]

\* The loop over insert_events (lines 216-217).
RECURSIVE InsertLoop(_)
InsertLoop(insert_events) ==
    IF insert_events = <<>> THEN <<>>
    ELSE generate_collapsing_rows(Head(insert_events), NoRow)
         \o InsertLoop(Tail(insert_events))

\* The loop over update_events (lines 219-229).
RECURSIVE UpdateLoop(_, _, _)
UpdateLoop(update_events, current_states, all_rows) ==
    IF update_events = <<>> THEN all_rows
    ELSE LET e == Head(update_events)
             key == KeyOfEvent(e)
             rows == generate_collapsing_rows(e, current_states[key])
         IN  UpdateLoop(Tail(update_events),
                        [current_states EXCEPT ![key] = FirstPlus(rows)],
                        all_rows \o rows)

\* Steps 1 and 3 of process_batch (lines 168-176 and 213-229): all_rows.
ProcessBatch(events, current_states) ==
    LET insert_events == SelectSeq(events, is_insert)
        update_events == SelectSeq(events, LAMBDA e : ~is_insert(e))
    IN  UpdateLoop(update_events, current_states, InsertLoop(insert_events))

\* keys of update_events (lines 181-183).
UpdateKeys(events) ==
    {KeyOfEvent(events[j]) : j \in {n \in DOMAIN events : ~is_insert(events[n])}}

\* ----------------------------------------------------------- state store
\* SELECT ... FROM airflow_processing_state FINAL (lines 79-91): the record
\* written last for the execution_date, none when nothing was written.
NoRecord == [status |-> "none", records_processed |-> 0]

ReadState(w) == state_store[w]

Completed(w) == ReadState(w).status = "completed"

\* depends_on_past / the schedule: the window the scheduler runs next is
\* the first one that is not completed.
Handled(w) == Completed(w) \/ w \in batched

IsNextWindow(w) ==
    /\ ~Handled(w)
    /\ \A v \in Windows : v < w => Handled(v)

TotalEvents == SumSeq([j \in 1..Cardinality(Windows) |-> Len(staging[j])])

\* ------------------------------------------------------------------ Init
NoIdem == [already_processed |-> FALSE, records_processed |-> 0, window |-> 0]

\* No run is active and no run has overlapped.
NoConc == [w \in Windows |-> [phase |-> "none", rows |-> <<>>, seen |-> <<>>]]

\* The state of the scheduler and of the state store before the first run.
InitRun ==
    /\ state_store = [w \in Windows |-> NoRecord]
    /\ pc = "idle"
    /\ win = 0
    /\ idem = NoIdem
    /\ raw_events = <<>>
    /\ processed = EmptyProcessed
    /\ offset = 0
    /\ total_inserted = 0
    /\ inserted_count = 0
    /\ upd_done = FALSE
    /\ mart_done = FALSE
    /\ mart_failed = FALSE
    /\ lookups = 0
    /\ state_writes = 0
    /\ mart_queries = 0
    /\ store_seen = <<>>
    /\ store_base = <<>>
    /\ failures = 0
    /\ batched = {}
    /\ conc = NoConc

Init ==
    /\ staging = [w \in Windows |-> <<>>]
    /\ store = <<>>
    /\ InitRun

\* --------------------------------------------------------------- actions
\* The XComs and task locals of a run, and the history of the run.
runVars == <<idem, raw_events, processed, offset, total_inserted,
             inserted_count, upd_done, mart_done, lookups, state_writes,
             mart_queries, store_seen>>

\* An event is consumed into the staging log, into the window that has not
\* begun yet (its _consumed_at falls in that window).
Produce(e) ==
    /\ UNCHANGED <<mart_failed, conc>>
    /\ pc = "idle"
    /\ TotalEvents < MaxEvents
    /\ \E w \in Windows :
          /\ IsNextWindow(w)
          /\ state_store[w] = NoRecord
          /\ staging' = [staging EXCEPT ![w] = Append(@, e)]
    /\ UNCHANGED <<store, state_store, pc, win, runVars, store_base, failures, batched>>

\* Mutant of AlreadyProcessed: any record of the window counts as completed.
AlreadyProcessed_AnyRecord(w) == ReadState(w).status # "none"

\* Mutant of AlreadyProcessed: the completed record is not recognised.
AlreadyProcessed_Never(w) == FALSE

\* "if result and result[0][0] == "completed"" (line 93).
AlreadyProcessed(w) == ReadState(w).status = "completed"

\* Mutant of RunningRecord: the running record does not reach the table.
RunningRecord_Unwritten == [status |-> "none", records_processed |-> 0]

\* The record inserted by lines 101-121: status running, records_processed 0.
RunningRecord == [status |-> "running", records_processed |-> 0]

\* Task check_idempotency (lines 63-128) of a run for execution_date w: the
\* next window of the schedule, a new run of a window whose run failed, or
\* a re-entry into a completed window.
check_idempotency(w) ==
    /\ UNCHANGED <<mart_failed, conc>>
    /\ pc = "idle"
    /\ IsNextWindow(w) \/ Completed(w)
    /\ win' = w
    /\ IF AlreadyProcessed(w)
       THEN /\ idem' = [already_processed |-> TRUE,
                        records_processed |-> ReadState(w).records_processed,
                        window |-> 0]
            /\ UNCHANGED <<state_store, state_writes, store_base>>
       ELSE /\ state_store' = [state_store EXCEPT ![w] = RunningRecord]
            /\ state_writes' = state_writes + 1
            /\ idem' = [already_processed |-> FALSE, records_processed |-> 0,
                        window |-> w]
            /\ store_base' = IF state_store[w] = NoRecord THEN store
                             ELSE store_base
    /\ pc' = "fetch"
    /\ UNCHANGED <<staging, store, raw_events, processed, offset,
                   total_inserted, inserted_count, upd_done, mart_done,
                   lookups, mart_queries, store_seen, failures, batched>>

\* Mutant of Parseable: a malformed payload is passed on as an event.
Parseable_Any(payload) == TRUE

\* json.loads(payload) does not raise (lines 159-165).
Parseable(payload) == payload # BadPayload

\* Task fetch_raw_events (lines 133-168).
fetch_raw_events ==
    /\ UNCHANGED <<mart_failed, conc>>
    /\ pc = "fetch"
    /\ raw_events' = IF idem.already_processed THEN <<>>
                     ELSE SelectSeq(staging[idem.window], Parseable)
    /\ pc' = "process"
    /\ UNCHANGED <<staging, store, state_store, win, idem, processed, offset,
                   total_inserted, inserted_count, upd_done, mart_done,
                   lookups, state_writes, mart_queries, store_seen,
                   store_base, failures, batched>>

\* Task process_events (lines 173-313).
process_events ==
    /\ UNCHANGED <<mart_failed, conc>>
    /\ pc = "process"
    /\ IF idem.already_processed \/ raw_events = <<>>
       THEN /\ processed' = EmptyProcessed
            /\ UNCHANGED <<lookups, store_seen>>
       ELSE /\ \E cs \in CurrentStateChoices(store,
                                            PotentialUpdateKeys(raw_events)) :
                  processed' = [ProcessEvents(raw_events, cs) EXCEPT
                                   !.queried = PotentialUpdateKeys(raw_events),
                                   !.resolved = cs]
            /\ lookups' = IF PotentialUpdateKeys(raw_events) # {}
                          THEN lookups + 1 ELSE lookups
            /\ store_seen' = store
    /\ pc' = "insert"
    /\ UNCHANGED <<staging, store, state_store, win, idem, raw_events, offset,
                   total_inserted, inserted_count, upd_done, mart_done,
                   state_writes, mart_queries, store_base, failures, batched>>

\* Mutant of AfterLookupFailure: the exception is swallowed and the run
\* goes on with what process_events had.
AfterLookupFailure_Swallowed == "insert"

\* The exception of line 218 is not caught: process_events fails, and the
\* tasks downstream of it do not run (lines 452-457).
AfterLookupFailure == "failed"

\* client.execute(query) of line 218 raises: the task and the run fail.
lookup_fails ==
    /\ UNCHANGED <<mart_failed, conc>>
    /\ pc = "process"
    /\ ~idem.already_processed
    /\ PotentialUpdateKeys(raw_events) # {}
    /\ failures < MaxFailures
    /\ failures' = failures + 1
    /\ lookups' = lookups + 1
    /\ pc' = AfterLookupFailure
    /\ UNCHANGED <<staging, store, state_store, win, idem, raw_events,
                   processed, offset, total_inserted, inserted_count,
                   upd_done, mart_done, state_writes, mart_queries,
                   store_seen, store_base, batched>>

\* Mutant of InsertShortCircuits: batch_insert lacks the early return.
InsertShortCircuits_Never == FALSE

\* "if idempotency_result.get("already_processed")" of batch_insert (line
\* 323).
InsertShortCircuits == idem.already_processed

\* Mutant of Chunk: each chunk after the first starts one row early.
Chunk_Overlapping(rows, i) ==
    SubSeq(rows, IF i = 0 THEN 1 ELSE i, Min(i + BATCH_SIZE, Len(rows)))

\* batch = rows[i : i + BATCH_SIZE] (line 335).
Chunk(rows, i) == SubSeq(rows, i + 1, Min(i + BATCH_SIZE, Len(rows)))

\* Task batch_insert (lines 318-369).  The early returns of lines 323-328
\* are one step; otherwise each step is one pass of the loop of line 334,
\* one client.execute of a chunk of BATCH_SIZE rows, and the last pass
\* returns total_inserted.
batch_insert ==
    /\ UNCHANGED <<mart_failed, conc>>
    /\ pc = "insert"
    /\ IF InsertShortCircuits
       THEN /\ inserted_count' = idem.records_processed
            /\ pc' = "post"
            /\ UNCHANGED <<store, offset, total_inserted>>
       ELSE IF processed.properties = <<>>
       THEN /\ inserted_count' = 0
            /\ pc' = "post"
            /\ UNCHANGED <<store, offset, total_inserted>>
       ELSE LET rows == processed.properties
                batch == Chunk(rows, offset)
            IN  /\ store' = store \o batch
                /\ total_inserted' = total_inserted + Len(batch)
                /\ offset' = offset + BATCH_SIZE
                /\ IF offset + BATCH_SIZE >= Len(rows)
                   THEN /\ inserted_count' = total_inserted + Len(batch)
                        /\ pc' = "post"
                   ELSE UNCHANGED <<inserted_count, pc>>
    /\ UNCHANGED <<staging, state_store, win, idem, raw_events, processed,
                   upd_done, mart_done, lookups, state_writes, mart_queries,
                   store_seen, store_base, failures, batched>>

\* Mutant of WriteFailureOutcomes: the exception is swallowed and the run
\* goes on to the tasks downstream of batch_insert.
WriteFailureOutcomes_Swallowed == {"post"}

\* The exception of line 337 is not caught: batch_insert is run again
\* (retries, line 44) or the run fails.
WriteFailureOutcomes == {"insert", "failed"}

\* client.execute of line 337 raises in some pass of the loop: the rows of
\* the earlier passes stay in the row store.  The task is retried from its
\* first line (retries=3), or the retries are used up and the run fails.
write_fails ==
    /\ UNCHANGED <<mart_failed, conc>>
    /\ pc = "insert"
    /\ ~idem.already_processed
    /\ processed.properties # <<>>
    /\ failures < MaxFailures
    /\ failures' = failures + 1
    /\ \E outcome \in WriteFailureOutcomes :
          /\ pc' = outcome
          /\ IF outcome = "insert"
             THEN offset' = 0 /\ total_inserted' = 0
             ELSE UNCHANGED <<offset, total_inserted>>
    /\ UNCHANGED <<staging, store, state_store, win, idem, raw_events,
                   processed, inserted_count, upd_done, mart_done, lookups,
                   state_writes, mart_queries, store_seen, store_base,
                   batched>>

\* Mutant of UpdateWaitsForMart: update_state is put downstream of
\* trigger_mart_refresh and does not run when the refresh has failed.
UpdateWaitsForMart_Downstream == mart_failed

\* update_state takes inserted_count and idempotency_check only (line 456):
\* it waits for no result of trigger_mart_refresh.
UpdateWaitsForMart == FALSE

\* Task update_state (lines 374-407).
update_state ==
    /\ UNCHANGED <<mart_failed, conc>>
    /\ pc = "post"
    /\ ~upd_done
    /\ ~UpdateWaitsForMart
    /\ IF idem.already_processed
       THEN UNCHANGED <<state_store, state_writes>>
       ELSE /\ state_store' = [state_store EXCEPT ![idem.window] =
                   [status |-> "completed",
                    records_processed |-> inserted_count]]
            /\ state_writes' = state_writes + 1
    /\ upd_done' = TRUE
    /\ pc' = IF ~mart_done THEN "post"
             ELSE IF mart_failed THEN "failed" ELSE "done"
    /\ UNCHANGED <<staging, store, win, idem, raw_events, processed, offset,
                   total_inserted, inserted_count, mart_done, lookups,
                   mart_queries, store_seen, store_base, failures, batched>>

\* client.execute of line 386 raises (or the run times out before it): no
\* completed record is written and the run fails.
update_state_fails ==
    /\ UNCHANGED <<mart_failed, conc>>
    /\ pc = "post"
    /\ ~upd_done
    /\ ~idem.already_processed
    /\ failures < MaxFailures
    /\ failures' = failures + 1
    /\ pc' = "failed"
    /\ UNCHANGED <<staging, store, state_store, win, idem, raw_events,
                   processed, offset, total_inserted, inserted_count,
                   upd_done, mart_done, lookups, state_writes, mart_queries,
                   store_seen, store_base, batched>>

\* Mutant of MartSkips: the refresh is skipped on a re-entry only.
MartSkips_OnReentry == idem.already_processed

\* Mutant of MartSkips: the refresh is never skipped.
MartSkips_Never == FALSE

\* "if records_inserted == 0" of trigger_mart_refresh (line 418).
MartSkips == inserted_count = 0

\* Task trigger_mart_refresh (lines 412-447); it depends on batch_insert
\* only (lines 455-457), so it runs before or after update_state.
trigger_mart_refresh ==
    /\ UNCHANGED <<mart_failed, conc>>
    /\ pc = "post"
    /\ ~mart_done
    /\ mart_queries' = IF MartSkips THEN mart_queries
                       ELSE mart_queries + 1
    /\ mart_done' = TRUE
    /\ pc' = IF upd_done THEN "done" ELSE "post"
    /\ UNCHANGED <<staging, store, state_store, win, idem, raw_events,
                   processed, offset, total_inserted, inserted_count,
                   upd_done, lookups, state_writes, store_seen, store_base,
                   failures, batched>>

\* client.execute(query) of line 443 raises: the exception is logged and
\* raised again (lines 445-447), trigger_mart_refresh fails and so does the
\* run; update_state does not depend on it.
mart_fails ==
    /\ pc = "post"
    /\ ~mart_done
    /\ ~MartSkips
    /\ failures < MaxFailures
    /\ failures' = failures + 1
    /\ mart_queries' = mart_queries + 1
    /\ mart_done' = TRUE
    /\ mart_failed' = TRUE
    /\ UNCHANGED conc
    /\ pc' = IF upd_done THEN "failed" ELSE "post"
    /\ UNCHANGED <<staging, store, state_store, win, idem, raw_events,
                   processed, offset, total_inserted, inserted_count,
                   upd_done, lookups, state_writes, store_seen, store_base,
                   batched>>

\* The run reaches its final state (success or failed): its XComs and task
\* locals are read by no later run.
run_ends ==
    /\ pc \in {"done", "failed"}
    /\ pc' = "idle"
    /\ win' = 0
    /\ idem' = NoIdem
    /\ raw_events' = <<>>
    /\ processed' = EmptyProcessed
    /\ offset' = 0
    /\ total_inserted' = 0
    /\ inserted_count' = 0
    /\ upd_done' = FALSE
    /\ mart_done' = FALSE
    /\ mart_failed' = FALSE
    /\ UNCHANGED conc
    /\ lookups' = 0
    /\ state_writes' = 0
    /\ mart_queries' = 0
    /\ store_seen' = <<>>
    /\ store_base' = IF pc = "done" THEN <<>> ELSE store_base
    /\ UNCHANGED <<staging, store, state_store, failures, batched>>

\* process_batch (03_collapsing_logic.py lines 159-249) called with the
\* events of the next window, in place of a DAG run: it looks up the
\* current state, generates all rows, inserts them with one client.execute
\* and returns their number.
process_batch(w) ==
    /\ UNCHANGED <<mart_failed, conc>>
    /\ pc = "idle"
    /\ IsNextWindow(w)
    /\ state_store[w] = NoRecord
    /\ \E cs \in CurrentStateChoices(store, UpdateKeys(staging[w])) :
          processed' = [EmptyProcessed EXCEPT
                           !.properties = ProcessBatch(staging[w], cs),
                           !.queried = UpdateKeys(staging[w]),
                           !.resolved = cs]
    /\ store' = store \o processed'.properties
    /\ inserted_count' = Len(processed'.properties)
    /\ raw_events' = staging[w]
    /\ store_seen' = store
    /\ lookups' = IF UpdateKeys(staging[w]) # {} THEN 1 ELSE 0
    /\ batched' = batched \cup {w}
    /\ win' = w
    /\ pc' = "done"
    /\ UNCHANGED <<staging, state_store, idem, offset, total_inserted,
                   upd_done, mart_done, state_writes, mart_queries,
                   store_base, failures>>

\* The pipeline when no task fails.
Next ==
    \/ \E e \in EventSpace : Produce(e)
    \/ \E w \in Windows : check_idempotency(w)
    \/ fetch_raw_events
    \/ process_events
    \/ batch_insert
    \/ update_state
    \/ trigger_mart_refresh
    \/ run_ends

Spec == Init /\ [][Next]_vars

\* Each window is handled by a DAG run or by a call of process_batch.
NextBoth ==
    \/ Next
    \/ \E w \in Windows : process_batch(w)

SpecBoth == Init /\ [][NextBoth]_vars

\* The pipeline fed with malformed payloads and with events whose
\* timestamps are missing or zero, and with a failing mart refresh.
NextEdge ==
    \/ \E e \in EdgePayloads : Produce(e)
    \/ \E w \in Windows : check_idempotency(w)
    \/ fetch_raw_events
    \/ process_events
    \/ batch_insert
    \/ update_state
    \/ trigger_mart_refresh
    \/ mart_fails
    \/ run_ends

SpecEdge == Init /\ [][NextEdge]_vars

\* The scheduler runs every task whose upstream tasks have succeeded (lines
\* 452-457): a task that can run is not put off for ever.
SpecEdgeLive ==
    /\ SpecEdge
    /\ WF_vars(fetch_raw_events)
    /\ WF_vars(process_events)
    /\ WF_vars(batch_insert)
    /\ WF_vars(update_state)

\* process_events (lines 173-313) of the run of window w, begun without
\* regard to the other run (max_active_runs and depends_on_past, lines 43
\* and 56, are settings of the scheduler, not of the tasks).
conc_process_events(w) ==
    /\ conc[w].phase = "none"
    /\ \E cs \in CurrentStateChoices(store,
                                     PotentialUpdateKeys(staging[w])) :
          conc' = [conc EXCEPT ![w] =
                      [phase |-> "looked",
                       rows |-> ProcessEvents(staging[w], cs).properties,
                       seen |-> store]]
    /\ UNCHANGED <<staging, store, state_store, pc, win, idem, raw_events,
                   processed, offset, total_inserted, inserted_count,
                   upd_done, mart_done, mart_failed, lookups, state_writes,
                   mart_queries, store_seen, store_base, failures, batched>>

\* batch_insert (lines 318-369) of the run of window w: its rows fit one
\* chunk.
conc_batch_insert(w) ==
    /\ conc[w].phase = "looked"
    /\ store' = store \o conc[w].rows
    /\ conc' = [conc EXCEPT ![w].phase = "appended"]
    /\ UNCHANGED <<staging, state_store, pc, win, idem, raw_events,
                   processed, offset, total_inserted, inserted_count,
                   upd_done, mart_done, mart_failed, lookups, state_writes,
                   mart_queries, store_seen, store_base, failures, batched>>

\* The events of the windows of two overlapping runs: UPDATE events of
\* property p1 of versions 2 and 3, and its INSERT event of version 2.
ConcEvents ==
    {e \in EventSpace : e.propertyId = "p1" /\ e.version >= 2}

RECURSIVE SeqsUpTo(_, _)
SeqsUpTo(S, n) ==
    IF n = 0 THEN {<<>>}
    ELSE SeqsUpTo(S, n - 1) \cup
         {Append(q, x) : q \in {r \in SeqsUpTo(S, n - 1) : Len(r) = n - 1},
                         x \in S}

\* The row stores an earlier window leaves: nothing, or the row of the
\* INSERT event of p1 of version 1.
ConcBaseStores ==
    {<<>>,
     <<WithSign(NewRow([tenantId |-> "t1", propertyId |-> "p1", version |-> 1,
                        createdTime |-> 1, lastModifiedTime |-> 1,
                        status |-> "A"]), 1)>>}

\* Two windows with their events in the staging log, after an earlier
\* window was processed.
InitConc ==
    /\ staging \in [Windows -> SeqsUpTo(ConcEvents, MaxConcLen)]
    /\ store \in ConcBaseStores
    /\ InitRun

\* The runs of the two windows, neither waiting for the other.
NextConc == \E w \in Windows : conc_process_events(w) \/ conc_batch_insert(w)

SpecConc == InitConc /\ [][NextConc]_vars

\* The pipeline with failing tasks and the runs that follow them.
NextFail ==
    \/ \E e \in FailureEvents : Produce(e)
    \/ \E w \in Windows : check_idempotency(w)
    \/ fetch_raw_events
    \/ process_events
    \/ lookup_fails
    \/ batch_insert
    \/ write_fails
    \/ update_state
    \/ update_state_fails
    \/ trigger_mart_refresh
    \/ run_ends

SpecFail == Init /\ [][NextFail]_vars

\* ------------------------------------------------------------ properties
\* The row that carries the key, version and payload of an event, with the
\* given sign (timestamps as datetimes, None for a missing or zero one).
RowCarrying(e, s) ==
    [tenant_id |-> e.tenantId, property_id |-> e.propertyId,
     version |-> e.version, sign |-> s, status |-> e.status,
     created_time |-> IF e.createdTime = 0 THEN None ELSE e.createdTime,
     last_modified_time |->
         IF e.lastModifiedTime = 0 THEN None ELSE e.lastModifiedTime]

InsertClass(e) == e.createdTime = e.lastModifiedTime

RECURSIVE Flatten(_)
Flatten(ss) == IF ss = <<>> THEN <<>> ELSE Head(ss) \o Flatten(Tail(ss))

\* The positions of the events of key k in a sequence of events.
PositionsOf(events, k) == {j \in DOMAIN events : KeyOfEvent(events[j]) = k}

KeysOf(events) == {KeyOfEvent(events[j]) : j \in DOMAIN events}

MaxOf(S) == CHOOSE x \in S : \A y \in S : y <= x

\* The +1 rows of key k in rows that have the highest version among them.
HighestPlusRows(rows, k) ==
    LET plus == {rows[j] : j \in {n \in DOMAIN rows :
                     KeyOfRow(rows[n]) = k /\ rows[n].sign = 1}}
    IN  {r \in plus : \A q \in plus : q.version <= r.version}

\* A DAG run (not a re-entry) has encoded the events of its window.
DagEncoded ==
    /\ pc \in {"insert", "post", "done"}
    /\ ~idem.already_processed
    /\ win \notin batched

\* A DAG run (not a re-entry) has appended all the rows of its window.
DagInserted ==
    /\ pc \in {"post", "done"}
    /\ ~idem.already_processed
    /\ win \notin batched

\* The store held no rows of k, or rows whose signs sum to 1, when the
\* batch was processed.
CleanBefore(k) ==
    RowsOfKey(store_seen, k) = <<>> \/ SumSign(store_seen, k) = 1

\* The last +1 row of key k in rows carries the last event of k.
LastPlusCarries(rows, events, k) ==
    LET plus == SelectSeq(rows, LAMBDA r : KeyOfRow(r) = k /\ r.sign = 1)
    IN  /\ plus # <<>>
        /\ plus[Len(plus)] = RowCarrying(events[MaxOf(PositionsOf(events, k))], 1)

\* An INSERT-classified event of k is the first event of k in the batch and
\* meets a store without rows of k.
InsertOnlyFresh(events, k) ==
    \A j \in PositionsOf(events, k) :
        InsertClass(events[j]) =>
            /\ j = CHOOSE n \in PositionsOf(events, k) :
                       \A m \in PositionsOf(events, k) : n <= m
            /\ RowsOfKey(store_seen, k) = <<>>

\* C1 (as stated): after a DAG run appended the rows of a batch, every key
\* of the batch that had no rows or a sign sum of 1 before has a sign sum
\* of 1, and its last emitted +1 row carries its last event.
C1_NetOnePerKey ==
    DagInserted =>
        \A k \in KeysOf(raw_events) :
            CleanBefore(k) =>
                /\ SumSign(store, k) = 1
                /\ LastPlusCarries(processed.properties, raw_events, k)

\* C1 (amended): the same, for the keys whose INSERT-classified events are
\* the key's first event of the batch and meet a store without rows of the
\* key.
C1_NetOnePerKeyFreshInserts ==
    DagInserted =>
        \A k \in KeysOf(raw_events) :
            CleanBefore(k) /\ InsertOnlyFresh(raw_events, k) =>
                /\ SumSign(store, k) = 1
                /\ LastPlusCarries(processed.properties, raw_events, k)

\* C1 witness: a run appended the rows of a batch with two or more events
\* of a key that had rows summing to 1, an INSERT-free case of the claim.
C1_Witness ==
    /\ DagInserted
    /\ \E k \in KeysOf(raw_events) :
          /\ RowsOfKey(store_seen, k) # <<>>
          /\ SumSign(store_seen, k) = 1
          /\ InsertOnlyFresh(raw_events, k)
          /\ Cardinality(PositionsOf(raw_events, k)) >= 2
          /\ SumSign(store, k) = 1

\* The per-key effect of two row sequences is the same: equal sign sums and
\* equal collapsed content (the live snapshots).
SameEffect(rows1, rows2) ==
    \A k \in AllKeys :
        /\ SumSign(rows1, k) = SumSign(rows2, k)
        /\ Collapsed(rows1, k) = Collapsed(rows2, k)

\* The row stores a single uninterrupted run of window w leaves, begun on
\* the store base.
UninterruptedStores(base, w) ==
    {base \o ProcessEvents(staging[w], cs).properties :
        cs \in CurrentStateChoices(base, PotentialUpdateKeys(staging[w]))}

\* C2: when a DAG run completes a window (update_state has written
\* COMPLETED), whatever runs of the window stopped before, the row store
\* has the per-key sign sums and live snapshots that one uninterrupted run
\* of the window leaves.
C2_RerunExactlyOnce ==
    (DagInserted /\ upd_done /\ pc = "done") =>
        \E ref \in UninterruptedStores(store_base, win) :
            SameEffect(store, ref)

\* C3: in a run that found the window COMPLETED, no step appends a row,
\* writes a state record or issues a state lookup, and batch_insert returns
\* the stored records_processed.
C3_ReentryWritesNothing ==
    /\ [][idem.already_processed =>
             /\ store' = store
             /\ state_store' = state_store
             /\ state_writes' = state_writes
             /\ lookups' = lookups]_vars
    /\ [](idem.already_processed =>
             /\ state_writes = 0
             /\ lookups = 0
             /\ pc \in {"post", "done"} =>
                    inserted_count = ReadState(win).records_processed)

\* C3 witness: a re-entry into a window completed with more than 0 rows has
\* run batch_insert and update_state.
C3_Witness ==
    /\ idem.already_processed
    /\ pc = "done"
    /\ upd_done
    /\ inserted_count > 0
    /\ store # <<>>

\* C4: in a run that found the window COMPLETED, trigger_mart_refresh
\* executes no refresh query.
C4_ReentryRunsNoRefresh ==
    idem.already_processed => mart_queries = 0

\* C5: the row store holds none or all of the rows encoded by a window
\* execution; stated for the states in which no batch_insert is in
\* progress (the run has ended or moved on), where every reading of the
\* claim requires it.
C5_AllOrNothing ==
    (/\ ~idem.already_processed
     /\ win \notin batched
     /\ processed.properties # <<>>
     /\ pc \in {"post", "done", "failed"}) =>
        \/ store = store_seen
        \/ store = store_seen \o processed.properties

\* The row process_batch builds for an event: key, version and payload with
\* the timestamps as the event gives them.
BatchRowCarrying(e, s) ==
    [tenant_id |-> e.tenantId, property_id |-> e.propertyId,
     version |-> e.version, sign |-> s, status |-> e.status,
     created_time |-> e.createdTime,
     last_modified_time |-> e.lastModifiedTime]

Cancelling(r) == [r EXCEPT !.sign = -1]

EventsOfKey(events, k) == SelectSeq(events, LAMBDA e : KeyOfEvent(e) = k)

\* The positions before i of the events of the key of events[i].
EarlierOfKey(events, i) ==
    {j \in 1..(i - 1) : KeyOfEvent(events[j]) = KeyOfEvent(events[i])}

\* The prior +1 rows known for events[i]: the +1 row of the latest earlier
\* event of its key in the batch, else the persisted +1 rows of its key of
\* the highest version.
KnownPriors(events, i, persisted) ==
    IF EarlierOfKey(events, i) # {}
    THEN {RowCarrying(events[MaxOf(EarlierOfKey(events, i))], 1)}
    ELSE HighestPlusRows(persisted, KeyOfEvent(events[i]))

\* The rows of the run are the rows emitted per event, in order.
PerEventAccount ==
    /\ Len(processed.per_event) = Len(raw_events)
    /\ processed.properties = Flatten(processed.per_event)

\* C6: for every event with created != modified whose key has a known
\* prior +1 row (persisted or emitted earlier in the batch), process_events
\* emits exactly two rows: the -1 copy of the prior row, then the +1 row of
\* the event; generate_collapsing_rows does so for every prior row given.
C6_UpdateEmitsCancelThenNew ==
    /\ DagEncoded =>
          /\ PerEventAccount
          /\ \A i \in DOMAIN raw_events :
                (~InsertClass(raw_events[i])
                   /\ KnownPriors(raw_events, i, store_seen) # {}) =>
                    \E prior \in KnownPriors(raw_events, i, store_seen) :
                        processed.per_event[i] =
                            <<Cancelling(prior), RowCarrying(raw_events[i], 1)>>
    /\ \A i \in DOMAIN raw_events :
          ~InsertClass(raw_events[i]) =>
              \A prior \in HighestPlusRows(store, KeyOfEvent(raw_events[i])) :
                  generate_collapsing_rows(raw_events[i], prior) =
                      <<Cancelling(prior), BatchRowCarrying(raw_events[i], 1)>>

\* C6 witness: a run encoded an UPDATE event whose prior row was emitted
\* earlier in the batch by an UPDATE event that itself cancelled a
\* persisted row.
C6_Witness ==
    /\ DagEncoded
    /\ \E i \in DOMAIN raw_events :
          /\ i >= 2
          /\ ~InsertClass(raw_events[i])
          /\ EarlierOfKey(raw_events, i) # {}
          /\ HighestPlusRows(store_seen, KeyOfEvent(raw_events[i])) # {}
          /\ Len(processed.per_event[i]) = 2
          /\ Len(processed.per_event[MaxOf(EarlierOfKey(raw_events, i))]) = 2

\* C7: for every event with created = modified, process_events emits
\* exactly one row, the +1 row of the event, whatever prior state the key
\* has; generate_collapsing_rows does so for every current state given.
C7_InsertEmitsOnePlus ==
    /\ DagEncoded =>
          /\ PerEventAccount
          /\ \A i \in DOMAIN raw_events :
                InsertClass(raw_events[i]) =>
                    processed.per_event[i] = <<RowCarrying(raw_events[i], 1)>>
    /\ \A i \in DOMAIN raw_events :
          InsertClass(raw_events[i]) =>
              \A cur \in HighestPlusRows(store, KeyOfEvent(raw_events[i]))
                            \cup {NoRow} :
                  generate_collapsing_rows(raw_events[i], cur) =
                      <<BatchRowCarrying(raw_events[i], 1)>>

\* C7 witness: a run encoded an INSERT event of a key that has a persisted
\* +1 row and an earlier event in the same batch.
C7_Witness ==
    /\ DagEncoded
    /\ \E i \in DOMAIN raw_events :
          /\ InsertClass(raw_events[i])
          /\ EarlierOfKey(raw_events, i) # {}
          /\ HighestPlusRows(store_seen, KeyOfEvent(raw_events[i])) # {}
          /\ Len(processed.per_event[i]) = 1

\* C8: for every event with created != modified whose key has no known
\* prior +1 row (none persisted, none emitted earlier in the batch),
\* process_events emits exactly one row, the +1 row of the event;
\* generate_collapsing_rows does so when given no current state.
C8_UpdateWithoutPriorEmitsOnePlus ==
    /\ DagEncoded =>
          /\ PerEventAccount
          /\ \A i \in DOMAIN raw_events :
                (~InsertClass(raw_events[i])
                   /\ KnownPriors(raw_events, i, store_seen) = {}) =>
                    processed.per_event[i] = <<RowCarrying(raw_events[i], 1)>>
    /\ \A i \in DOMAIN raw_events :
          ~InsertClass(raw_events[i]) =>
              generate_collapsing_rows(raw_events[i], NoRow) =
                  <<BatchRowCarrying(raw_events[i], 1)>>

\* C8 witness: a run encoded an UPDATE event of a key without rows, while
\* the store holds rows of another key.
C8_Witness ==
    /\ DagEncoded
    /\ store_seen # <<>>
    /\ \E i \in DOMAIN raw_events :
          /\ ~InsertClass(raw_events[i])
          /\ EarlierOfKey(raw_events, i) = {}
          /\ RowsOfKey(store_seen, KeyOfEvent(raw_events[i])) = <<>>
          /\ Len(processed.per_event[i]) = 1

\* The chain of the +1 rows ps: ps[1], then for each i from 2 on the
\* cancellation of ps[i-1] and ps[i].
ChainOf(ps) ==
    IF ps = <<>> THEN <<>>
    ELSE <<ps[1]>> \o
         Flatten([i \in 1..(Len(ps) - 1) |-> <<Cancelling(ps[i]), ps[i + 1]>>])

\* The events of a window were encoded, by a DAG run or by process_batch.
EncodedAny ==
    /\ pc \in {"insert", "post", "done"}
    /\ ~idem.already_processed

\* The batch holds two or more events of k, all UPDATE, and the store held
\* no +1 row of k.
UpdateOnlyChainCase(k) ==
    /\ Len(EventsOfKey(raw_events, k)) >= 2
    /\ \A j \in DOMAIN EventsOfKey(raw_events, k) :
          ~InsertClass(EventsOfKey(raw_events, k)[j])
    /\ HighestPlusRows(store_seen, k) = {}

\* C9: in process_events and in process_batch, for a key with two or more
\* events in the batch, all UPDATE, and no persisted +1 row, the rows
\* emitted for the key are [+1 P1] followed for each i from 2 on by
\* [-1 P(i-1), +1 Pi], and their signs sum to 1.
C9_InBatchChain ==
    EncodedAny =>
        \A k \in KeysOf(raw_events) :
            UpdateOnlyChainCase(k) =>
                LET ek == EventsOfKey(raw_events, k)
                    ps == [j \in DOMAIN ek |->
                             IF win \in batched
                             THEN BatchRowCarrying(ek[j], 1)
                             ELSE RowCarrying(ek[j], 1)]
                IN  /\ RowsOfKey(processed.properties, k) = ChainOf(ps)
                    /\ SumSign(processed.properties, k) = 1

\* C9 witness: process_batch encoded a batch with three UPDATE events of a
\* key without persisted +1 row.
C9_Witness ==
    /\ pc = "done"
    /\ win \in batched
    /\ \E k \in KeysOf(raw_events) :
          /\ UpdateOnlyChainCase(k)
          /\ Len(EventsOfKey(raw_events, k)) = 3
          /\ Len(RowsOfKey(processed.properties, k)) = 5

\* The events of the completed windows, in delivery order.
Delivered ==
    Flatten([w \in 1..Cardinality(Windows) |->
                IF Completed(w) THEN staging[w] ELSE <<>>])

\* The delivered events of k have strictly increasing versions.
StrictlyIncreasing(k) ==
    \A i, j \in DOMAIN EventsOfKey(Delivered, k) :
        i < j => EventsOfKey(Delivered, k)[i].version
                     < EventsOfKey(Delivered, k)[j].version

\* An INSERT-classified delivered event of k is the first one of k.
InsertsOnlyFirst(k) ==
    \A j \in DOMAIN EventsOfKey(Delivered, k) :
        InsertClass(EventsOfKey(Delivered, k)[j]) => j = 1

\* The +1 row of k of the highest version is the only snapshot of k that
\* nets to +1, every other snapshot of k nets to 0, and the signs of k sum
\* to 1.
OneLiveSnapshot(k) ==
    /\ \E r \in HighestPlusRows(store, k) :
          /\ HighestPlusRows(store, k) = {r}
          /\ NetSign(store, Snapshot(r)) = 1
          /\ \A q \in SnapshotsOfKey(store, k) \ {Snapshot(r)} :
                NetSign(store, q) = 0
    /\ SumSign(store, k) = 1

\* C10 (as stated): when every window so far ran to completion, for every
\* key with rows whose events arrived with strictly increasing versions the
\* +1 row of the highest version is the only live snapshot and the signs
\* of the key sum to 1.
C10_OneLiveSnapshot ==
    pc = "idle" =>
        \A k \in AllKeys :
            (RowsOfKey(store, k) # <<>> /\ StrictlyIncreasing(k)) =>
                OneLiveSnapshot(k)

\* C10 (amended): the same, for the keys whose INSERT-classified events
\* are the key's first delivered event.
C10_OneLiveSnapshotInsertsFirst ==
    pc = "idle" =>
        \A k \in AllKeys :
            (/\ RowsOfKey(store, k) # <<>>
             /\ StrictlyIncreasing(k)
             /\ InsertsOnlyFirst(k)) =>
                OneLiveSnapshot(k)

\* C10 witness: two windows ran to completion, the second with an event of
\* a key that the first window left rows of, versions strictly increasing.
C10_Witness ==
    /\ pc = "idle"
    /\ \A w \in Windows : Completed(w)
    /\ \E k \in AllKeys :
          /\ StrictlyIncreasing(k)
          /\ InsertsOnlyFirst(k)
          /\ EventsOfKey(staging[1], k) # <<>>
          /\ EventsOfKey(staging[2], k) # <<>>
          /\ Len(RowsOfKey(store, k)) >= 3
          /\ OneLiveSnapshot(k)

\* A step of check_idempotency for window w.
IdempotencyStep(w) == pc = "idle" /\ pc' = "fetch" /\ win' = w

\* C11: check_idempotency returns already_processed with the stored
\* records_processed exactly when the record of the window is COMPLETED,
\* and then writes nothing; when there is no record or a RUNNING one it
\* writes a RUNNING record with records_processed 0 and returns fresh with
\* the window.
C11_CompletedIffAlreadyProcessed ==
    [][\A w \in Windows :
          IdempotencyStep(w) =>
              /\ idem'.already_processed <=>
                     state_store[w].status = "completed"
              /\ state_store[w].status = "completed" =>
                     /\ idem'.records_processed =
                            state_store[w].records_processed
                     /\ state_store' = state_store
              /\ state_store[w].status \in {"none", "running"} =>
                     /\ state_store'[w] =
                            [status |-> "running", records_processed |-> 0]
                     /\ idem'.window = w
                     /\ idem'.records_processed = 0]_vars

\* C11 witness: check_idempotency has returned fresh for a window whose
\* earlier run failed and left its RUNNING record.
C11_Witness ==
    /\ pc = "fetch"
    /\ win = 1
    /\ failures >= 1
    /\ ~idem.already_processed
    /\ idem.window = 1
    /\ state_store[1].status = "running"

\* C12: once the record of a window is COMPLETED, no step changes it (no
\* RUNNING record, no other records_processed), no run of that window
\* writes a state record, and every check_idempotency for the window
\* returns already_processed with the stored count.
C12_CompletedOnce ==
    [][\A w \in Windows :
          state_store[w].status = "completed" =>
              /\ state_store'[w] = state_store[w]
              /\ (win = w \/ win' = w) => state_writes' <= state_writes
              /\ IdempotencyStep(w) =>
                     /\ idem'.already_processed
                     /\ idem'.records_processed =
                            state_store[w].records_processed]_vars

\* C12 witness: a window that failed once and was then completed with more
\* than 0 rows has been entered again, and check_idempotency has returned.
C12_Witness ==
    /\ pc = "fetch"
    /\ failures >= 1
    /\ idem.already_processed
    /\ idem.records_processed > 0
    /\ state_store[win].status = "completed"
    /\ state_store[win].records_processed = idem.records_processed

\* rows are the last rows of the row store.
EndsWith(rows) ==
    /\ Len(store) >= Len(rows)
    /\ SubSeq(store, Len(store) - Len(rows) + 1, Len(store)) = rows

\* The number of rows the active run has appended to the row store: the
\* growth of the store since process_events read it.
AppendedByRun ==
    IF processed.properties = <<>> THEN 0 ELSE Len(store) - Len(store_seen)

\* The active DAG run has written the COMPLETED record of its window.
RunCompletedWindow ==
    /\ win \in Windows
    /\ win \notin batched
    /\ ~idem.already_processed
    /\ Completed(win)

\* C13: when a run has written the COMPLETED record of its window,
\* batch_insert has returned after appending every encoded row of the
\* window, and records_processed is the number of rows that run appended
\* to the row store.
C13_CompletedCountsAppendedRows ==
    RunCompletedWindow =>
        /\ pc \in {"post", "done"}
        /\ EndsWith(processed.properties)
        /\ ReadState(win).records_processed = AppendedByRun

\* A step of fetch_raw_events in a run of a window that was not COMPLETED.
FetchStep == pc = "fetch" /\ pc' = "process" /\ ~idem.already_processed

\* C14: in a run of a window that is not COMPLETED, when fetch_raw_events
\* reads the staging log the run has already written the RUNNING record of
\* the window, and events of the staging log are read by no other step.
C14_RunningBeforeFetch ==
    [][/\ FetchStep =>
              /\ state_writes >= 1
              /\ state_store[idem.window] =
                     [status |-> "running", records_processed |-> 0]
              /\ raw_events' = staging[idem.window]
       /\ raw_events' # raw_events /\ raw_events' # <<>> => FetchStep]_vars

\* C14 witness: fetch_raw_events has read the events of a window whose
\* RUNNING record the run wrote.
C14_Witness ==
    /\ pc = "process"
    /\ ~idem.already_processed
    /\ raw_events # <<>>
    /\ raw_events = staging[win]
    /\ state_writes = 1
    /\ state_store[win].status = "running"

\* The state lookup of process_events raises.
LookupFailureStep == pc = "process" /\ failures' = failures + 1

WriteFailureStep == pc = "insert" /\ failures' = failures + 1

\* C16: a failing write of batch_insert writes no state record and leaves
\* the record of the window RUNNING; a run that failed leaves it RUNNING;
\* and the record is COMPLETED only by a run whose last pass over the
\* chunks appended every one of them.
C16_WriteFailureKeepsRunning ==
    /\ [][WriteFailureStep =>
              /\ state_store' = state_store
              /\ state_store[win].status = "running"]_vars
    /\ [](pc = "failed" => state_store[win].status = "running")
    /\ [](RunCompletedWindow =>
              /\ offset >= Len(processed.properties)
              /\ EndsWith(processed.properties))

\* C16 witness: a run completed its window after a write of batch_insert
\* had failed behind an appended chunk and the retry appended every chunk.
C16_Witness ==
    /\ RunCompletedWindow
    /\ failures >= 1
    /\ processed.properties # <<>>
    /\ Len(store) > Len(store_seen) + Len(processed.properties)
    /\ EndsWith(processed.properties)

\* The +1 rows of a row sequence, in order.
PlusRows(rows) == SelectSeq(rows, LAMBDA r : r.sign = 1)

\* process_events: the rows of the batch are the rows emitted per event in
\* delivery order, and the rows of the i-th event end with its +1 row.
DagInDeliveryOrder ==
    /\ PerEventAccount
    /\ \A i \in DOMAIN raw_events :
          /\ processed.per_event[i] # <<>>
          /\ processed.per_event[i][Len(processed.per_event[i])] =
                 RowCarrying(raw_events[i], 1)

\* process_batch: every event emits one +1 row, so when the rows of the
\* batch are the rows per event in delivery order, its +1 rows are the +1
\* rows of the events in delivery order.
BatchInDeliveryOrder ==
    PlusRows(processed.properties) =
        [i \in DOMAIN raw_events |-> BatchRowCarrying(raw_events[i], 1)]

\* C17: the rows emitted for a batch are the rows emitted for each event,
\* concatenated in the delivery order of the events, in process_events and
\* in process_batch.
C17_RowsInDeliveryOrder ==
    EncodedAny =>
        IF win \in batched THEN BatchInDeliveryOrder ELSE DagInDeliveryOrder

\* C18: when the row store holds the encoded batch of a window twice (the
\* rows appended by a run that stopped before COMPLETED, and again by the
\* next run of the window), every key has the sum of signs and the live
\* snapshots it has with the batch appended once.
C18_DuplicateAppendTolerated ==
    (/\ DagInserted
     /\ processed.properties # <<>>
     /\ store = store_base \o processed.properties \o processed.properties) =>
        SameEffect(store, store_base \o processed.properties)

\* C19: when a run has executed a mart refresh query, the COMPLETED record
\* of its window has been written.
C19_RefreshAfterCompleted ==
    mart_queries > 0 => (win \in Windows /\ Completed(win))

MartFailureStep == mart_failed' /\ ~mart_failed

\* C21: a failing refresh query fails its task and the run, appends and
\* removes no row and changes no state record; the failed refresh does not
\* keep update_state from running, and once update_state has run the
\* window is COMPLETED with the row count of batch_insert and its rows are
\* in the row store.
C21_RefreshFailureKeepsWindow ==
    /\ [][MartFailureStep =>
              /\ failures' = failures + 1
              /\ store' = store
              /\ state_store' = state_store]_vars
    /\ [][mart_failed => store' = store]_vars
    /\ [](mart_failed /\ pc \in {"done", "failed"} => pc = "failed")
    /\ [](mart_failed /\ pc = "post" /\ ~upd_done => ENABLED update_state)
    /\ [](mart_failed /\ upd_done =>
              /\ Completed(win)
              /\ ReadState(win).records_processed = inserted_count
              /\ inserted_count > 0
              /\ EndsWith(processed.properties))

\* C21 witness: the refresh of a run failed before update_state ran, and
\* update_state has since written the COMPLETED record.
C21_Witness ==
    /\ mart_failed
    /\ upd_done
    /\ pc = "failed"
    /\ state_writes = 2
    /\ Completed(win)
    /\ store # <<>>

\* ------------------------------------------------------ overlapping runs
\* Both runs have appended, both read the same store, in which key k has
\* one live snapshot, and every event of k in either window is an UPDATE
\* event of a later version.
ConcPrior(k) == CHOOSE r \in HighestPlusRows(conc[1].seen, k) : TRUE

ConcCase(k) ==
    /\ \A w \in Windows : conc[w].phase = "appended"
    /\ conc[1].seen = conc[2].seen
    /\ SumSign(conc[1].seen, k) = 1
    /\ Cardinality(HighestPlusRows(conc[1].seen, k)) = 1
    /\ \A w \in Windows :
          /\ \E i \in 1..Len(staging[w]) : KeyOfEvent(staging[w][i]) = k
          /\ \A i \in 1..Len(staging[w]) :
                KeyOfEvent(staging[w][i]) = k =>
                   /\ staging[w][i].createdTime # staging[w][i].lastModifiedTime
                   /\ staging[w][i].version > ConcPrior(k).version

UncancelledPlus(rows, k) == {c \in Collapsed(rows, k) : c[2] > 0}

\* C22: when two runs whose windows both update a key have both done their
\* state lookup before either appended, each of them appends a -1 copy of
\* the same prior +1 row; after both appends the prior snapshot has net
\* sign -1 and the key has two un-cancelled +1 rows.
C22_OverlapCancelsTwice ==
    \A k \in AllKeys :
       ConcCase(k) =>
          /\ \A w \in Windows :
                \E i \in 1..Len(conc[w].rows) :
                   conc[w].rows[i] = Cancelling(ConcPrior(k))
          /\ NetSign(store, Snapshot(ConcPrior(k))) = -1
          /\ \/ /\ Cardinality(UncancelledPlus(store, k)) = 2
                /\ \A c \in UncancelledPlus(store, k) : c[2] = 1
             \/ /\ Cardinality(UncancelledPlus(store, k)) = 1
                /\ \A c \in UncancelledPlus(store, k) : c[2] = 2

C22_Witness ==
    \E k \in AllKeys :
       /\ ConcCase(k)
       /\ NetSign(store, Snapshot(ConcPrior(k))) = -1
       /\ Cardinality(UncancelledPlus(store, k)) = 2

\* ----------------------------------------------------------- state lookup
\* A DAG run or a call of process_batch has encoded a batch of events.
BatchEncoded ==
    \/ DagEncoded /\ raw_events # <<>>
    \/ win \in batched /\ pc = "done"

\* The keys of the events of the batch whose timestamps differ.
UpdateClassKeys(events) ==
    {k \in AllKeys :
        \E i \in DOMAIN events :
           KeyOfEvent(events[i]) = k /\ ~InsertClass(events[i])}

\* C23: a batch issues at most one state lookup, and issues it for the set
\* of keys of its UPDATE-class events; for each of these keys the resolver
\* keeps a +1 row of the highest version among the +1 rows of the key in
\* the store, and keeps nothing for a key without a +1 row or not asked for.
C23_OneLookupHighestVersion ==
    /\ lookups <= 1
    /\ BatchEncoded =>
          /\ processed.queried = UpdateClassKeys(raw_events)
          /\ lookups = 1 <=> processed.queried # {}
          /\ \A k \in AllKeys :
                IF k \in processed.queried
                   /\ HighestPlusRows(store_seen, k) # {}
                THEN processed.resolved[k] \in HighestPlusRows(store_seen, k)
                ELSE processed.resolved[k] = NoRow

\* C23 witness: the lookup of a batch returned +1 rows of two versions of a
\* key, and the resolver kept the one of the higher version.
C23_Witness ==
    /\ BatchEncoded
    /\ lookups = 1
    /\ \E k \in processed.queried :
          /\ processed.resolved[k] # NoRow
          /\ \E j \in DOMAIN store_seen :
                /\ KeyOfRow(store_seen[j]) = k
                /\ store_seen[j].sign = 1
                /\ store_seen[j].version < processed.resolved[k].version

\* C24: for a batch all of whose events have created time = modified time,
\* process_events and process_batch emit one row per event, the +1 row of
\* the event, in the order of the events, and issue no state lookup.
C24_InsertOnlyBatch ==
    (BatchEncoded /\ \A i \in DOMAIN raw_events : InsertClass(raw_events[i])) =>
        /\ lookups = 0
        /\ processed.queried = {}
        /\ Len(processed.properties) = Len(raw_events)
        /\ \A i \in DOMAIN raw_events :
              processed.properties[i] =
                  IF win \in batched
                  THEN BatchRowCarrying(raw_events[i], 1)
                  ELSE RowCarrying(raw_events[i], 1)

\* C24 witness: a DAG run has encoded a batch of two INSERT events of
\* different keys over a store that holds rows.
C24_Witness ==
    /\ DagEncoded
    /\ Len(raw_events) = 2
    /\ \A i \in DOMAIN raw_events : InsertClass(raw_events[i])
    /\ KeyOfEvent(raw_events[1]) # KeyOfEvent(raw_events[2])
    /\ store_seen # <<>>
    /\ Len(processed.properties) = 2

\* -------------------------------------------------- unparseable payloads
\* The payloads of a sequence that can be parsed, in their order.
RECURSIVE ParseableOf(_)
ParseableOf(payloads) ==
    IF payloads = <<>> THEN <<>>
    ELSE IF Head(payloads) = BadPayload THEN ParseableOf(Tail(payloads))
    ELSE <<Head(payloads)>> \o ParseableOf(Tail(payloads))

HasUnparseable(payloads) ==
    \E i \in DOMAIN payloads : payloads[i] = BadPayload

\* The row is a +1 row of the key and version of the event.
PlusRowOf(r, e) ==
    /\ r.sign = 1
    /\ KeyOfRow(r) = KeyOfEvent(e)
    /\ r.version = e.version
    /\ r.status = e.status

\* C25: fetch_raw_events returns the parseable payloads of the window in
\* delivery order and does not fail on the others; the rows of the run are
\* the rows of these events, every one of them with its +1 row; and a run
\* that fetches a window with an unparseable payload writes the COMPLETED
\* record of the window.
C25_UnparseableSkipped ==
    /\ [][FetchStep =>
             raw_events' = ParseableOf(staging[idem.window])]_vars
    /\ [](pc = "failed" => mart_failed)
    /\ [](DagEncoded =>
             /\ raw_events = ParseableOf(staging[win])
             /\ PerEventAccount
             /\ \A i \in DOMAIN raw_events :
                   /\ processed.per_event[i] # <<>>
                   /\ PlusRowOf(processed.per_event[i]
                                   [Len(processed.per_event[i])],
                                raw_events[i]))
    /\ \A w \in Windows :
          (/\ pc = "fetch"
           /\ ~idem.already_processed
           /\ idem.window = w
           /\ HasUnparseable(staging[w])) ~> Completed(w)

\* C25 witness: a run has written the COMPLETED record of a window whose
\* first payload is unparseable and whose second one gave the rows of the run.
C25_Witness ==
    /\ DagInserted
    /\ upd_done
    /\ Completed(win)
    /\ Len(staging[win]) = 2
    /\ staging[win][1] = BadPayload
    /\ Len(raw_events) = 1
    /\ store # <<>>
    /\ ReadState(win).records_processed = Len(processed.properties)

\* ------------------------------------------- missing and zero timestamps
\* A timestamp as the claim reads it: a missing one is 0.
ReadAsZero(t) == IF t \in {Missing, 0} THEN 0 ELSE t

\* INSERT by the rule of the claim: the two timestamps, read so, are equal.
InsertByRule(e) == ReadAsZero(e.createdTime) = ReadAsZero(e.lastModifiedTime)

MissingOrZero(t) == t \in {Missing, 0}

\* C26: process_events takes an event for an INSERT exactly when its
\* createdTime equals its lastModifiedTime with a missing timestamp read as
\* 0: with both missing or zero it is an INSERT, with exactly one missing or
\* zero it is an UPDATE; the key-collection pass collects the keys of the
\* events that the row-emission pass takes for UPDATEs, and no others.
C26_InsertIffEqualTimes ==
    (DagEncoded /\ raw_events # <<>>) =>
        /\ Len(processed.classes) = Len(raw_events)
        /\ \A i \in DOMAIN raw_events :
              LET e == raw_events[i]
              IN  /\ processed.classes[i] <=> ~InsertByRule(e)
                  /\ (MissingOrZero(e.createdTime)
                        /\ MissingOrZero(e.lastModifiedTime)) =>
                         ~processed.classes[i]
                  /\ (MissingOrZero(e.createdTime)
                        # MissingOrZero(e.lastModifiedTime)) =>
                         processed.classes[i]
        /\ processed.queried =
              {KeyOfEvent(raw_events[i]) :
                  i \in {j \in DOMAIN raw_events : processed.classes[j]}}

\* C26 witness: a run has encoded an event with a missing createdTime and a
\* zero lastModifiedTime as an INSERT, after an event with only its
\* lastModifiedTime missing as an UPDATE.
C26_Witness ==
    /\ DagEncoded
    /\ Len(raw_events) = 2
    /\ raw_events[1].createdTime = 1
    /\ raw_events[1].lastModifiedTime = Missing
    /\ processed.classes[1]
    /\ raw_events[2].createdTime = Missing
    /\ raw_events[2].lastModifiedTime = 0
    /\ ~processed.classes[2]
    /\ processed.queried = {KeyOfEvent(raw_events[1])}

\* ---------------------------------------------------- cancellation rows
\* Row i of rows is a -1 row that copies a +1 row of persisted or an
\* earlier +1 row of rows, and the row after it is a +1 row of its key.
CancelHasPriorAndNew(rows, i, persisted) ==
    /\ \/ \E j \in DOMAIN persisted : persisted[j] = WithSign(rows[i], 1)
       \/ \E j \in 1..(i - 1) : rows[j] = WithSign(rows[i], 1)
    /\ i < Len(rows)
    /\ rows[i + 1].sign = 1
    /\ KeyOfRow(rows[i + 1]) = KeyOfRow(rows[i])

HasPlusRow(rows) == \E i \in DOMAIN rows : rows[i].sign = 1

\* C27: in the rows process_events or process_batch emits for a batch,
\* every -1 row has the key, version and payload of a +1 row that was in
\* the store before the batch or is emitted earlier in the batch, and the
\* row after it is a +1 row of the same key; the rows emitted for one event
\* by process_events, and by generate_collapsing_rows for any current
\* state of the key of the event, include a +1 row.
C27_NoBareCancellation ==
    BatchEncoded =>
        /\ \A i \in DOMAIN processed.properties :
              processed.properties[i].sign = -1 =>
                  CancelHasPriorAndNew(processed.properties, i, store_seen)
        /\ win \notin batched =>
              /\ PerEventAccount
              /\ \A i \in DOMAIN raw_events :
                    HasPlusRow(processed.per_event[i])
        /\ \A i \in DOMAIN raw_events :
              \A cur \in {NoRow} \cup
                         HighestPlusRows(store_seen, KeyOfEvent(raw_events[i])) :
                 LET rows == generate_collapsing_rows(raw_events[i], cur)
                 IN  /\ HasPlusRow(rows)
                     /\ \A n \in DOMAIN rows :
                           rows[n].sign = -1 =>
                               /\ n < Len(rows)
                               /\ rows[n + 1].sign = 1

\* C27 witness: process_batch has emitted a batch with two -1 rows, the
\* first a copy of a persisted +1 row and the second a copy of the +1 row
\* emitted before it.
C27_Witness ==
    /\ win \in batched
    /\ pc = "done"
    /\ \E i, j \in DOMAIN processed.properties :
          /\ i < j
          /\ processed.properties[i].sign = -1
          /\ processed.properties[j].sign = -1
          /\ \E n \in DOMAIN store_seen :
                store_seen[n] = WithSign(processed.properties[i], 1)
          /\ processed.properties[j - 1] = WithSign(processed.properties[j], 1)

\* ------------------------------------------------- encode before append
\* The step appends rows to the row store.
AppendStep == store' # store

\* A step of batch_insert of a DAG run whose process_events has finished:
\* the lookup was made on the store as it was, every event of the window
\* has its rows, and the rows appended are rows of that encoding.
DagAppendAfterEncoding ==
    /\ pc = "insert"
    /\ lookups' = lookups
    /\ processed' = processed
    /\ Len(processed.per_event) = Len(raw_events)
    /\ raw_events = staging[win]
    /\ lookups = 1 <=> processed.queried # {}
    /\ \E n \in 1..Len(processed.properties) :
          store' = store_seen \o SubSeq(processed.properties, 1, n)

\* A call of process_batch: the rows it appends, in one insert, hold the +1
\* row of every event of the window.
BatchAppendAfterEncoding ==
    /\ pc = "idle"
    /\ pc' = "done"
    /\ win' \in batched'
    /\ store' = store \o processed'.properties
    /\ Len(PlusRows(processed'.properties)) = Len(staging[win'])

\* C28: every step of a window execution that appends a row to the row
\* store comes after the state lookup and the encoding of all the events of
\* the window.
C28_EncodeBeforeAppend ==
    [][AppendStep => DagAppendAfterEncoding \/ BatchAppendAfterEncoding]_vars

\* C28 witness: a DAG run that looked up the state of a key has appended
\* the rows of its two events.
C28_Witness ==
    /\ DagInserted
    /\ lookups = 1
    /\ Len(raw_events) = 2
    /\ store_seen # <<>>
    /\ store = store_seen \o processed.properties
    /\ Len(processed.properties) >= 3

\* --------------------------------------- process_batch and process_events
\* C29: the rows process_batch emits for a batch are the rows
\* process_events emits for the same events and the same looked-up state.
C29_BatchEqualsDag ==
    (win \in batched /\ pc = "done") =>
        processed.properties =
            ProcessEvents(raw_events, processed.resolved).properties

\* ----------------------------------------------------------- empty windows
\* The active DAG run is of a window that was not COMPLETED and holds no
\* parseable payload.
EmptyWindowRun ==
    /\ pc \in {"process", "insert", "post", "done", "failed"}
    /\ ~idem.already_processed
    /\ win \notin batched
    /\ ParseableOf(staging[win]) = <<>>

\* C30: a run of a window with no events, or with unparseable payloads
\* only, issues no state lookup, appends no row and executes no refresh
\* query; it does not fail, and its update_state writes the COMPLETED record
\* with records_processed 0.
C30_EmptyWindowCompletes ==
    /\ [][EmptyWindowRun =>
             /\ store' = store
             /\ lookups' = lookups
             /\ mart_queries' = mart_queries]_vars
    /\ [](EmptyWindowRun =>
             /\ raw_events = <<>>
             /\ lookups = 0
             /\ mart_queries = 0
             /\ pc # "failed"
             /\ pc \in {"post", "done"} => inserted_count = 0
             /\ (pc = "post" /\ ~upd_done) => ENABLED update_state
             /\ upd_done =>
                   ReadState(win) =
                       [status |-> "completed", records_processed |-> 0])

\* C30 witness: the run of a window whose only payload is unparseable has
\* ended with the COMPLETED record written, while the store holds the rows
\* of an earlier window.
C30_Witness ==
    /\ EmptyWindowRun
    /\ pc = "done"
    /\ staging[win] = <<BadPayload>>
    /\ upd_done
    /\ mart_done
    /\ Completed(win)
    /\ store # <<>>

\* --------------------------------------------------------- chunked insert
\* The first n rows of the encoded list of the run.
EncodedPrefix(n) ==
    SubSeq(processed.properties, 1, Min(n, Len(processed.properties)))

\* C31: in a run without failures, after every chunk write of batch_insert
\* the row store holds, after the rows it held before, the rows of the
\* encoded list written so far, in the order of the list and each once; when
\* batch_insert has returned the store holds the whole list so, every -1 row
\* right before its paired +1 row, and the value returned is the length of
\* the list.
C31_ChunksKeepOrder ==
    /\ (DagEncoded /\ pc = "insert" /\ processed.properties # <<>>) =>
          /\ store = store_seen \o EncodedPrefix(offset)
          /\ total_inserted = Len(EncodedPrefix(offset))
    /\ DagInserted => inserted_count = Len(processed.properties)
    /\ (DagInserted /\ processed.properties # <<>>) =>
          /\ store = store_seen \o processed.properties
          /\ \A i \in DOMAIN processed.properties :
                processed.properties[i].sign = -1 =>
                    /\ store[Len(store_seen) + i] = processed.properties[i]
                    /\ Len(store_seen) + i < Len(store)
                    /\ store[Len(store_seen) + i + 1].sign = 1
                    /\ KeyOfRow(store[Len(store_seen) + i + 1]) =
                           KeyOfRow(processed.properties[i])

\* C31 witness: batch_insert has returned after writing a list of more than
\* BATCH_SIZE rows in which the last row of the first chunk is a -1 row
\* and its paired +1 row is the first row of the second chunk.
C31_Witness ==
    /\ DagInserted
    /\ Len(processed.properties) > BATCH_SIZE
    /\ processed.properties[BATCH_SIZE].sign = -1
    /\ store[Len(store_seen) + BATCH_SIZE + 1].sign = 1
    /\ inserted_count = Len(processed.properties)
    /\ store_seen # <<>>

\* ------------------------------------------------------------------ stats
\* The rows emitted for event i of the run include a cancellation row.
EmittedCancel(i) ==
    \E n \in DOMAIN processed.per_event[i] :
       processed.per_event[i][n].sign = -1

MinusRows(rows) == SelectSeq(rows, LAMBDA r : r.sign = -1)

\* C32: the stats process_events returns count every event of the batch
\* once, inserts + updates being the number of events; the row list has
\* inserts + 2 * updates rows; updates is the number of events that emitted
\* a cancellation row, so that an UPDATE event without known prior state is
\* counted in inserts.
C32_StatsCountBranches ==
    DagEncoded =>
        /\ PerEventAccount
        /\ processed.stats.inserts + processed.stats.updates = Len(raw_events)
        /\ Len(processed.properties) =
              processed.stats.inserts + 2 * processed.stats.updates
        /\ processed.stats.updates =
              Cardinality({i \in DOMAIN raw_events : EmittedCancel(i)})
        /\ processed.stats.updates = Len(MinusRows(processed.properties))
        /\ processed.stats.inserts =
              Cardinality({i \in DOMAIN raw_events : ~EmittedCancel(i)})
        /\ \A i \in DOMAIN raw_events :
              (~InsertClass(raw_events[i])
                 /\ KnownPriors(raw_events, i, store_seen) = {}) =>
                  ~EmittedCancel(i)

\* C32 witness: process_events has returned inserts = 2 and updates = 1 for
\* a batch of three events: an UPDATE event without known prior state
\* counted as an insert, an UPDATE event with one, and an INSERT event.
C32_Witness ==
    /\ DagEncoded
    /\ Len(raw_events) = 3
    /\ processed.stats = [inserts |-> 2, updates |-> 1]
    /\ Len(processed.properties) = 4
    /\ ~InsertClass(raw_events[1])
    /\ KnownPriors(raw_events, 1, store_seen) = {}
    /\ EmittedCancel(2)
    /\ InsertClass(raw_events[3])

====
